---------------------------- MODULE Spec2Model ----------------------------
(***************************************************************************)
(* A model of USB1901-record-tool.c: the command-line recorder for the     *)
(* ADLINK USB-1901.  The program is sequential; pc is the position of      *)
(* main().  The vendor driver (UsbDask), the C library and the operator    *)
(* at the keyboard are the environment: every answer they can give is a    *)
(* nondeterministic choice.                                                *)
(*                                                                         *)
(* Specification Spec is the whole program, from process_arguments to the  *)
(* end of the process.  Specification SpecPS applies process_samples, as   *)
(* a function, to bounded inputs; specification SpecVolt does the same for *)
(* ad_range_to_volt.                                                       *)
(***************************************************************************)
EXTENDS Integers, Sequences, FiniteSets, TLC

(***************************************************************************)
(* Program constants.                                                      *)
(***************************************************************************)
MAX_CHANNELS == 8

AI_COUNT == 20480

(***************************************************************************)
(* Bounds of the model.                                                    *)
(***************************************************************************)
\* Command lines: -c options after the MaxVaried-th repeat the argument of
\* the -c option before them.
MaxVaried == 2

\* Half-buffers the driver reports ready during one session.
MaxHalfBuffers == 2

\* Largest count of trailing samples the clear operation reports.
MaxAccessCnt == 3

\* The tick clock is followed until this many milliseconds after t1.
MaxElapsed == 1100

\* SpecPS: longest buffer handed to process_samples.
MaxLen == 6

\* SpecVolt: calls of ad_range_to_volt followed.
MaxVoltCalls == 4

(***************************************************************************)
(* 32-bit unsigned values (DWORD, U32) as two 16-bit limbs <<hi, lo>>.     *)
(***************************************************************************)
Limb == 65536

U32OfInt(n) == <<(n \div Limb) % Limb, n % Limb>>

U32Sub(a, b) ==
    LET lo == a[2] - b[2]
        borrow == IF lo < 0 THEN 1 ELSE 0
    IN  <<(a[1] - b[1] - borrow) % Limb, lo % Limb>>

U32AddSmall(a, n) ==
    LET lo == a[2] + n
    IN  <<(a[1] + (lo \div Limb)) % Limb, lo % Limb>>

U32Gt(a, b) == a[1] > b[1] \/ (a[1] = b[1] /\ a[2] > b[2])

\* The low 32 bits of 1000*d, for an int d >= 0.
Mul1000Low32(d) ==
    LET lo == 1000 * (d % Limb)
        hi == 1000 * (d \div Limb) + (lo \div Limb)
    IN  <<hi % Limb, lo % Limb>>

\* 1000*d is representable in a 32-bit int exactly when d <= INT_MAX / 1000.
INT_MAX_DIV_1000 == 2147483

\* C's % on ints truncates towards zero.
CMod(a, b) == IF a >= 0 THEN a % b ELSE -((-a) % b)

(***************************************************************************)
(* State.                                                                  *)
(***************************************************************************)
VARIABLES
    pc,           \* position of the program
    no_channels,  \* global no_channels
    channel,      \* global channel[], entries 1..no_channels: <<id, AdRange>>
    sample_rate,  \* global sample_rate
    duration,     \* global duration
    file_name,    \* global file_name
    file,         \* global file: "NULL", "open" or "closed"
    cardState,    \* the driver's view of the device handle: "none", "held", "released"
    releases,     \* number of UD_Release_Card calls made
    misRelease,   \* a UD_Release_Card call was made on a handle that is not held
    hwTouched,    \* a driver call has been made
    tick,         \* the tick clock (GetTickCount), a U32
    t1,           \* main's t1
    elapsed,      \* milliseconds the clock advanced since t1 was read
    halves,       \* half-buffers transferred so far
    samples,      \* main's samples
    offset,       \* main's offset
    AccessCnt,    \* main's AccessCnt
    written,      \* fields written to the output file
    psCalls,      \* the process_samples calls made: [length, offset, ret] each
    failure,      \* the driver call or argument that ended the session, or "none"
    exitVia,      \* "none", "exit", "clean_exit", "trap"
    exitCode,     \* argument of exit()
    lastCheck,    \* the last exit check: <<elapsed, broke>>, or <<>>
    keyAsked,     \* kbhit() has been called
    done,         \* the steps of main() completed so far, in order
    lastArg,      \* the option process_arguments examined last, and its value
    ps,           \* SpecPS: the record of a process_samples experiment
    Chans,        \* open_USB1901's Chans[], entries 1..NumChans
    AdRanges,     \* open_USB1901's AdRanges[], entries 1..NumChans
    reported,     \* the total main printed at the end, or -1
    volt          \* SpecVolt: the record of the ad_range_to_volt calls made

vars == <<pc, no_channels, channel, sample_rate, duration, file_name, file,
          cardState, releases, misRelease, hwTouched, tick, t1, elapsed,
          halves, samples, offset, AccessCnt, written, psCalls, failure,
          exitVia, exitCode, lastCheck, keyAsked, done, lastArg, ps, Chans,
          AdRanges, reported, volt>>

cfgVars == <<no_channels, channel, sample_rate, duration, file_name>>

devVars == <<cardState, releases, misRelease>>

openVars == <<Chans, AdRanges>>

runVars == <<tick, t1, elapsed, halves, samples, offset, AccessCnt, written,
             psCalls, lastCheck, keyAsked, done>>


(***************************************************************************)
(* Command-line tokens.  An option's value is absent (the option is the    *)
(* last token), a string sscanf reads no integer from, a decimal integer,  *)
(* or "<int>:<int>".                                                       *)
(***************************************************************************)
NoArg == [k |-> "none"]

Word == [k |-> "word"]

IntTok(n) == [k |-> "int", v |-> n]

PairTok(a, b) == [k |-> "pair", id |-> a, range |-> b]

\* sscanf(tok, "%d", &s): <<items assigned, s>>
ScanInt(tok) ==
    CASE tok.k = "int"  -> <<1, tok.v>>
      [] tok.k = "pair" -> <<1, tok.id>>
      [] OTHER          -> <<0, 0>>

\* sscanf(tok, "%d:%d", &id, &range): <<items assigned, id, range>>
ScanPair(tok) ==
    CASE tok.k = "pair" -> <<2, tok.id, tok.range>>
      [] tok.k = "int"  -> <<1, tok.v, 0>>
      [] OTHER          -> <<0, 0, 0>>

\* Values tried after each option.
OArgs == {NoArg, Word}

SArgs == {NoArg, Word, IntTok(0), IntTok(1000)}

DArgs == {NoArg, Word, IntTok(0), IntTok(1), IntTok(4294968)}

CArgs == {NoArg, Word, IntTok(3), PairTok(16, 0), PairTok(0 - 1, 0),
          PairTok(3, 9), PairTok(0, 0 - 1), PairTok(0, 1), PairTok(1, 3)}

\* A mutant of the switch that takes range digit 3 for the 2 V range.
RangeCodeNoTenVolt(range) ==
    CASE range = 0 -> "AD_B_0_2_V"
      [] range = 1 -> "AD_B_1_V"
      [] range = 2 -> "AD_B_2_V"
      [] range = 3 -> "AD_B_2_V"

\* The switch of process_arguments from the range digit to the driver's code.
RangeCode(range) ==
    CASE range = 0 -> "AD_B_0_2_V"
      [] range = 1 -> "AD_B_1_V"
      [] range = 2 -> "AD_B_2_V"
      [] range = 3 -> "AD_B_10_V"

(***************************************************************************)
(* Ways the process ends.                                                  *)
(***************************************************************************)
\* exit(code), called directly.
Exit(code, why) ==
    /\ pc' = "exited"
    /\ exitCode' = code
    /\ exitVia' = "exit"
    /\ failure' = why
    /\ UNCHANGED <<file, cardState, releases, misRelease>>

\* UD_Release_Card(card) as the driver sees it.
ReleaseCard ==
    /\ releases' = releases + 1
    /\ misRelease' = (misRelease \/ cardState # "held")
    /\ cardState' = IF cardState = "held" THEN "released" ELSE cardState

\* A mutant of clean_exit that forgets the device handle.
CleanExitNoRelease(code, why) ==
    /\ UNCHANGED <<cardState, releases, misRelease>>
    /\ file' = IF file = "open" THEN "closed" ELSE file
    /\ pc' = "exited"
    /\ exitCode' = code
    /\ exitVia' = "clean_exit"
    /\ failure' = why

\* clean_exit(card, code)
CleanExit(code, why) ==
    /\ ReleaseCard
    /\ file' = IF file = "open" THEN "closed" ELSE file
    /\ pc' = "exited"
    /\ exitCode' = code
    /\ exitVia' = "clean_exit"
    /\ failure' = why

\* The process is killed by a trap (undefined behaviour that faults).
Trap(why) ==
    /\ pc' = "crashed"
    /\ exitVia' = "trap"
    /\ failure' = why
    /\ UNCHANGED <<file, cardState, releases, misRelease, exitCode>>

(***************************************************************************)
(* process_arguments: one action per branch of the loop body; each action  *)
(* is one iteration of the while loop (the option and its value).          *)
(***************************************************************************)
\* The loop ends: i >= argc.
ArgsDone ==
    /\ pc = "args"
    /\ pc' = "scan"
    /\ lastArg' = [opt |-> "end", val |-> NoArg, nth |-> 0]
    /\ UNCHANGED <<cfgVars, file, devVars, hwTouched, runVars, failure,
                   exitVia, exitCode, ps, openVars, reported, volt>>

\* -h
ArgHelp ==
    /\ pc = "args"
    /\ lastArg' = [opt |-> "-h", val |-> NoArg, nth |-> 0]
    /\ Exit(0, "usage")
    /\ UNCHANGED <<cfgVars, hwTouched, runVars, ps, openVars, reported, volt>>

\* -o <file name>
ArgOutput ==
    /\ pc = "args"
    /\ \E val \in OArgs :
         /\ lastArg' = [opt |-> "-o", val |-> val, nth |-> 0]
         /\ IF val = NoArg
            THEN /\ Exit(0 - 1, "arg_o")
                 /\ UNCHANGED file_name
            ELSE /\ file_name' = "named"
                 /\ UNCHANGED <<pc, file, devVars, failure, exitVia, exitCode>>
    /\ UNCHANGED <<no_channels, channel, sample_rate, duration, hwTouched,
                   runVars, ps, openVars, reported, volt>>

\* The test of the value given to -s or -d (r is what sscanf returned).
BadCount(val, r) == val = NoArg \/ r[1] # 1 \/ r[2] < 1

\* -s <sample rate>
ArgSampleRate ==
    /\ pc = "args"
    /\ \E val \in SArgs :
         /\ lastArg' = [opt |-> "-s", val |-> val, nth |-> 0]
         /\ IF BadCount(val, ScanInt(val))
            THEN /\ Exit(0 - 1, "arg_s")
                 /\ UNCHANGED sample_rate
            ELSE /\ sample_rate' = ScanInt(val)[2]
                 /\ UNCHANGED <<pc, file, devVars, failure, exitVia, exitCode>>
    /\ UNCHANGED <<no_channels, channel, file_name, duration, hwTouched,
                   runVars, ps, openVars, reported, volt>>

\* A mutant of the -c test that lets channel id 16 through.
BadChannelArgOffByOne(val, r) ==
    val = NoArg \/ r[1] # 2 \/ r[2] < 0 \/ r[2] > 16 \/ r[3] < 0 \/ r[3] > 3

\* The test of the value given to -c (r is what sscanf returned).
BadChannelArg(val, r) ==
    val = NoArg \/ r[1] # 2 \/ r[2] < 0 \/ r[2] > 15 \/ r[3] < 0 \/ r[3] > 3

\* -c <channel id>:<range>
ArgChannel ==
    /\ pc = "args"
    /\ \E val \in CArgs :
         /\ lastArg' = [opt |-> "-c", val |-> val, nth |-> no_channels + 1]
         /\ IF no_channels < MAX_CHANNELS
            THEN LET r == ScanPair(val) IN
                 IF BadChannelArg(val, r)
                 THEN /\ Exit(0 - 1, "arg_c")
                      /\ UNCHANGED <<no_channels, channel>>
                 ELSE /\ IF no_channels < MaxVaried THEN TRUE
                         ELSE channel[no_channels] = <<r[2], RangeCode(r[3])>>
                      /\ channel' = Append(channel, <<r[2], RangeCode(r[3])>>)
                      /\ no_channels' = no_channels + 1
                      /\ UNCHANGED <<pc, file, devVars, failure, exitVia,
                                     exitCode>>
            ELSE /\ Exit(0 - 1, "arg_c_many")
                 /\ UNCHANGED <<no_channels, channel>>
    /\ UNCHANGED <<sample_rate, file_name, duration, hwTouched, runVars, ps, openVars, reported, volt>>

\* -d <duration>
ArgDuration ==
    /\ pc = "args"
    /\ \E val \in DArgs :
         /\ lastArg' = [opt |-> "-d", val |-> val, nth |-> 0]
         /\ IF BadCount(val, ScanInt(val))
            THEN /\ Exit(0 - 1, "arg_d")
                 /\ UNCHANGED duration
            ELSE /\ duration' = ScanInt(val)[2]
                 /\ UNCHANGED <<pc, file, devVars, failure, exitVia, exitCode>>
    /\ UNCHANGED <<no_channels, channel, sample_rate, file_name, hwTouched,
                   runVars, ps, openVars, reported, volt>>

\* any other token
ArgUnknown ==
    /\ pc = "args"
    /\ lastArg' = [opt |-> "other", val |-> NoArg, nth |-> 0]
    /\ Exit(0 - 1, "arg_unknown")
    /\ UNCHANGED <<cfgVars, hwTouched, runVars, ps, openVars, reported, volt>>

process_arguments ==
    \/ ArgsDone
    \/ ArgHelp
    \/ ArgOutput
    \/ ArgSampleRate
    \/ ArgChannel
    \/ ArgDuration
    \/ ArgUnknown


(***************************************************************************)
(* process_samples and ad_range_to_volt.  Voltages are kept exact: a value *)
(* v stands for v / (10 * 2^15) volts.                                     *)
(***************************************************************************)
\* A mutant of ad_range_to_volt whose default branch falls into the last case.
AdRangeToVoltFallThrough(range) ==
    CASE range = "AD_B_0_2_V" -> 2
      [] range = "AD_B_1_V"   -> 10
      [] range = "AD_B_2_V"   -> 20
      [] OTHER                -> 100

\* What a call of ad_range_to_volt(range) writes to stderr.
UnknownRangeMessage(range) ==
    IF range \in {"AD_B_0_2_V", "AD_B_1_V", "AD_B_2_V", "AD_B_10_V"}
    THEN <<>>
    ELSE <<"ad_range_to_volt: Unknown AD range.">>

\* ad_range_to_volt(range), in tenths of a volt.
ad_range_to_volt(range) ==
    CASE range = "AD_B_0_2_V" -> 2
      [] range = "AD_B_1_V"   -> 10
      [] range = "AD_B_2_V"   -> 20
      [] range = "AD_B_10_V"  -> 100
      [] OTHER                -> 0

\* A mutant of the separator choice that forgets the rotation offset.
FieldSepNoOffset(i, off) ==
    IF CMod(CMod(i, no_channels) + 1, no_channels) # 0 THEN ",\t" ELSE "\n"

\* The text written after the i-th sample (i from 0) of a call.
FieldSep(i, off) ==
    LET c == CMod(i + off, no_channels)
    IN  IF CMod(c + 1, no_channels) # 0 THEN ",\t" ELSE "\n"

\* A mutant of the conversion that takes the range of channel i % C.
FieldUnrotated(buffer, i, off) ==
    LET c == CMod(i + off, no_channels)
    IN  [c     |-> c,
         volts |-> buffer[i + 1]
                      * ad_range_to_volt(channel[CMod(i, no_channels) + 1][2]),
         sep   |-> FieldSep(i, off)]

\* The field written for the i-th sample (i from 0) of a call.
Field(buffer, i, off) ==
    LET c == CMod(i + off, no_channels)
    IN  [c     |-> c,
         volts |-> buffer[i + 1] * ad_range_to_volt(channel[c + 1][2]),
         sep   |-> FieldSep(i, off)]

\* samplesPerChannel, the divisor of the averages a call prints.
SamplesPerChannel(length) == length \div no_channels

\* What one call appends to the output file.
ProcessSamplesOut(buffer, length, off) ==
    [k \in 1..length |-> Field(buffer, k - 1, off)]

\* A mutant of the return value that forgets the offset it was given.
ProcessSamplesRetNoOffset(length, off) == CMod(length, no_channels)

\* A mutant of the return value that hands back the offset it was given.
ProcessSamplesRetStale(length, off) == off

\* The value process_samples returns.
ProcessSamplesRet(length, off) == CMod(length + off, no_channels)

\* Offsets a call with no_channels = 0 may return when it does not trap.
UnspecifiedOffsets == {0, 1}

\* offset = process_samples(buffer, length, offset), called from main.
CallProcessSamples(length) ==
    IF no_channels = 0
    THEN \* line 239 divides by zero: undefined behaviour
         \/ /\ Trap("div0")
            /\ psCalls' = Append(psCalls, [length |-> length, offset |-> offset,
                                           ret |-> 0 - 1])
            /\ UNCHANGED <<offset, written>>
         \/ \E r \in UnspecifiedOffsets :
              /\ offset' = r
              /\ psCalls' = Append(psCalls, [length |-> length,
                                             offset |-> offset, ret |-> r])
              /\ UNCHANGED <<written, file, devVars, failure, exitVia, exitCode>>
    ELSE IF length > 0 /\ file # "open"
    THEN \* fprintf through a null FILE*: undefined behaviour
         \/ /\ Trap("nullwrite")
            /\ psCalls' = Append(psCalls, [length |-> length, offset |-> offset,
                                           ret |-> 0 - 1])
            /\ UNCHANGED <<offset, written>>
         \/ /\ offset' = ProcessSamplesRet(length, offset)
            /\ psCalls' = Append(psCalls, [length |-> length, offset |-> offset,
                                           ret |-> offset'])
            /\ UNCHANGED <<written, file, devVars, failure, exitVia, exitCode>>
    ELSE /\ offset' = ProcessSamplesRet(length, offset)
         /\ written' = written + (IF length > 0 THEN length ELSE 0)
         /\ psCalls' = Append(psCalls, [length |-> length, offset |-> offset,
                                        ret |-> offset'])
         /\ UNCHANGED <<file, devVars, failure, exitVia, exitCode>>

(***************************************************************************)
(* open_USB1901: one action per driver call.                               *)
(***************************************************************************)
Answers == {"ok", "error"}

\* The copy of channel[] into Chans[] and AdRanges[], UD_Device_Scan and the
\* search for a USB_1901 module.
DeviceScan ==
    /\ pc = "scan"
    /\ Chans' = [k \in 1..no_channels |-> channel[k][1]]
    /\ AdRanges' = [k \in 1..no_channels |-> channel[k][2]]
    /\ hwTouched' = TRUE
    /\ \E r \in {"error", "no_module", "found"} :
         CASE r = "error"     -> Exit(1, "Device_Scan")
           [] r = "no_module" -> Exit(2, "no_device")
           [] OTHER -> /\ pc' = "register"
                       /\ UNCHANGED <<file, devVars, failure, exitVia, exitCode>>
    /\ UNCHANGED <<cfgVars, runVars, lastArg, ps, reported, volt>>

\* UD_Register_Card
RegisterCard ==
    /\ pc = "register"
    /\ \E r \in Answers :
         IF r = "error"
         THEN Exit(3, "Register_Card")
         ELSE /\ cardState' = "held"
              /\ pc' = "config"
              /\ UNCHANGED <<file, releases, misRelease, failure, exitVia, exitCode>>
    /\ UNCHANGED <<cfgVars, hwTouched, runVars, lastArg, ps, openVars, reported, volt>>

\* UD_AI_1902_Config
Config1902 ==
    /\ pc = "config"
    /\ \E r \in Answers :
         IF r = "error"
         THEN Exit(1, "AI_1902_Config")
         ELSE /\ pc' = "dblmode"
              /\ UNCHANGED <<file, devVars, failure, exitVia, exitCode>>
    /\ UNCHANGED <<cfgVars, hwTouched, runVars, lastArg, ps, openVars, reported, volt>>

\* UD_AI_AsyncDblBufferMode
DblBufferMode ==
    /\ pc = "dblmode"
    /\ \E r \in Answers :
         IF r = "error"
         THEN Exit(1, "AsyncDblBufferMode")
         ELSE /\ pc' = "interval"
              /\ UNCHANGED <<file, devVars, failure, exitVia, exitCode>>
    /\ UNCHANGED <<cfgVars, hwTouched, runVars, lastArg, ps, openVars, reported, volt>>

\* UD_AI_1902_CounterInterval
CounterInterval ==
    /\ pc = "interval"
    /\ \E r \in Answers :
         IF r = "error"
         THEN Exit(1, "CounterInterval")
         ELSE /\ pc' = "contread"
              /\ UNCHANGED <<file, devVars, failure, exitVia, exitCode>>
    /\ UNCHANGED <<cfgVars, hwTouched, runVars, lastArg, ps, openVars, reported, volt>>

\* UD_AI_ContReadChannel or UD_AI_ContReadMultiChannels, then return card.
ContRead ==
    /\ pc = "contread"
    /\ \E r \in Answers :
         IF r = "error"
         THEN CleanExit(1, IF no_channels = 1 THEN "ContReadChannel"
                                              ELSE "ContReadMultiChannels")
         ELSE /\ pc' = "fopen"
              /\ UNCHANGED <<file, devVars, failure, exitVia, exitCode>>
    /\ UNCHANGED <<cfgVars, hwTouched, runVars, lastArg, ps, openVars, reported, volt>>

open_USB1901 ==
    \/ DeviceScan
    \/ RegisterCard
    \/ Config1902
    \/ DblBufferMode
    \/ CounterInterval
    \/ ContRead

(***************************************************************************)
(* main, after open_USB1901 has returned.                                  *)
(***************************************************************************)
\* Milliseconds the clock may advance during one Sleep(10) and poll.
TickSteps == {400, 700}

\* Values the tick clock may have when the program starts.
TickStarts == {<<0, 5000>>, <<65535, 65036>>}

HalfCount == AI_COUNT \div 2

\* t1 = GetTickCount(); file = fopen(file_name, "w");
OpenFile ==
    /\ pc = "fopen"
    /\ t1' = tick
    /\ elapsed' = 0
    /\ \E f \in {"open", "NULL"} : file' = f
    /\ pc' = "poll"
    /\ UNCHANGED <<cfgVars, devVars, hwTouched, tick, halves, samples, offset,
                   AccessCnt, written, psCalls, failure, exitVia, exitCode,
                   lastCheck, keyAsked, done, lastArg, ps, openVars, reported, volt>>

\* Sleep(10); UD_AI_AsyncDblBufferHalfReady
Poll ==
    /\ pc = "poll"
    /\ \E delta \in (IF elapsed < MaxElapsed THEN TickSteps ELSE {0}) :
         /\ tick' = U32AddSmall(tick, delta)
         /\ elapsed' = elapsed + delta
    /\ \E r \in Answers :
         IF r = "error"
         THEN pc' = "poll_failed"
         ELSE \E HalfReady \in {h \in BOOLEAN : h => halves < MaxHalfBuffers} :
                pc' = IF HalfReady THEN "transfer" ELSE "exitcheck"
    /\ UNCHANGED <<cfgVars, file, devVars, hwTouched, t1, halves, samples,
                   offset, AccessCnt, written, psCalls, failure, exitVia,
                   exitCode, lastCheck, keyAsked, done, lastArg, ps, openVars,
                   reported, volt>>

\* A mutant of the failed query's handling that leaves without the clear.
PollFailedNoClear ==
    /\ pc = "poll_failed"
    /\ pc' = "poll_cleared"
    /\ UNCHANGED <<cfgVars, file, devVars, hwTouched, runVars, failure, exitVia,
                   exitCode, lastArg, ps, openVars, reported, volt>>

\* The half-ready query failed: UD_AI_AsyncClear(card, &AccessCnt), whose
\* result is not looked at (AccessCnt is not read again).
PollFailedClear ==
    /\ pc = "poll_failed"
    /\ done' = Append(done, "error_clear")
    /\ pc' = "poll_cleared"
    /\ UNCHANGED <<cfgVars, file, devVars, hwTouched, tick, t1, elapsed, halves,
                   samples, offset, AccessCnt, written, psCalls, failure,
                   exitVia, exitCode, lastCheck, keyAsked, lastArg, ps,
                   openVars, reported, volt>>

\* The half-ready query failed: clean_exit(card, 1) after the clear.
PollFailedExit ==
    /\ pc = "poll_cleared"
    /\ CleanExit(1, "HalfReady")
    /\ UNCHANGED <<cfgVars, hwTouched, runVars, lastArg, ps, openVars, reported,
                   volt>>

\* A mutant of the transfer that goes to the exit check with the half-buffer
\* not yet processed.
TransferThenExitCheck ==
    /\ pc = "transfer"
    /\ \E r \in Answers :
         IF r = "error"
         THEN /\ done' = Append(done, "error_clear")
              /\ CleanExit(1, "Transfer")
              /\ UNCHANGED <<halves, samples>>
         ELSE /\ halves' = halves + 1
              /\ samples' = samples + HalfCount
              /\ pc' = "exitcheck"
              /\ UNCHANGED <<done, file, devVars, failure, exitVia, exitCode>>
    /\ UNCHANGED <<cfgVars, hwTouched, tick, t1, elapsed, offset, AccessCnt,
                   written, psCalls, lastCheck, keyAsked, lastArg, ps,
                   openVars, reported, volt>>

\* UD_AI_AsyncDblBufferTransfer of the ready half; samples += AI_COUNT/2
Transfer ==
    /\ pc = "transfer"
    /\ \E r \in Answers :
         IF r = "error"
         THEN \* UD_AI_AsyncClear(card, &AccessCnt); clean_exit(card, 1);
              /\ done' = Append(done, "error_clear")
              /\ CleanExit(1, "Transfer")
              /\ UNCHANGED <<halves, samples>>
         ELSE /\ halves' = halves + 1
              /\ samples' = samples + HalfCount
              /\ pc' = "process"
              /\ UNCHANGED <<done, file, devVars, failure, exitVia, exitCode>>
    /\ UNCHANGED <<cfgVars, hwTouched, tick, t1, elapsed, offset, AccessCnt,
                   written, psCalls, lastCheck, keyAsked, lastArg, ps, openVars, reported, volt>>

\* offset = process_samples(buffer, AI_COUNT/2, offset);
ProcessHalf ==
    /\ pc = "process"
    /\ CallProcessSamples(HalfCount)
    /\ pc' = IF exitVia' = "trap" THEN "crashed" ELSE "exitcheck"
    /\ UNCHANGED <<cfgVars, hwTouched, tick, t1, elapsed, halves, samples,
                   AccessCnt, lastCheck, keyAsked, done, lastArg, ps, openVars, reported, volt>>

\* (t2 - t1) > 1000*duration, in DWORD arithmetic
DurationExceeded(now, start, limit) == U32Gt(U32Sub(now, start), limit)

\* The exit check at the end of the loop body.
ExitCheck ==
    /\ pc = "exitcheck"
    /\ IF duration < 1
       THEN /\ keyAsked' = TRUE
            /\ \E kbhit \in BOOLEAN :
                 /\ pc' = IF kbhit THEN "clear" ELSE "poll"
                 /\ done' = IF kbhit THEN Append(done, "break") ELSE done
            /\ UNCHANGED <<lastCheck, file, devVars, failure, exitVia, exitCode>>
       ELSE IF duration <= INT_MAX_DIV_1000
       THEN LET broke == DurationExceeded(tick, t1, U32OfInt(1000 * duration))
            IN  /\ lastCheck' = <<elapsed, broke>>
                /\ pc' = IF broke THEN "clear" ELSE "poll"
                /\ done' = IF broke THEN Append(done, "break") ELSE done
                /\ UNCHANGED <<keyAsked, file, devVars, failure, exitVia, exitCode>>
       ELSE \* 1000*duration overflows int: undefined behaviour
            \/ LET broke == DurationExceeded(tick, t1, Mul1000Low32(duration))
               IN  /\ lastCheck' = <<elapsed, broke>>
                   /\ pc' = IF broke THEN "clear" ELSE "poll"
                   /\ done' = IF broke THEN Append(done, "break") ELSE done
                   /\ UNCHANGED <<keyAsked, file, devVars, failure, exitVia,
                                  exitCode>>
            \/ /\ Trap("overflow")
               /\ UNCHANGED <<lastCheck, keyAsked, done>>
    /\ UNCHANGED <<cfgVars, hwTouched, tick, t1, elapsed, halves, samples,
                   offset, AccessCnt, written, psCalls, lastArg, ps, openVars, reported, volt>>

\* UD_AI_AsyncClear after the loop.
Clear ==
    /\ pc = "clear"
    /\ \E r \in Answers :
         IF r = "error"
         THEN /\ CleanExit(1, "Clear")
              /\ UNCHANGED <<AccessCnt, done>>
         ELSE /\ \E n \in 0..MaxAccessCnt : AccessCnt' = n
              /\ done' = Append(done, "clear")
              /\ pc' = "final_transfer"
              /\ UNCHANGED <<file, devVars, failure, exitVia, exitCode>>
    /\ UNCHANGED <<cfgVars, hwTouched, tick, t1, elapsed, halves, samples,
                   offset, written, psCalls, lastCheck, keyAsked, lastArg, ps, openVars, reported, volt>>

\* A mutant of the final transfer that does not look at err.
FinalTransferUnchecked ==
    /\ pc = "final_transfer"
    /\ \E r \in Answers :
         /\ done' = IF r = "error" THEN done ELSE Append(done, "final_transfer")
         /\ pc' = "final_process"
         /\ UNCHANGED <<file, devVars, failure, exitVia, exitCode>>
    /\ UNCHANGED <<cfgVars, hwTouched, tick, t1, elapsed, halves, samples,
                   offset, AccessCnt, written, psCalls, lastCheck, keyAsked,
                   lastArg, ps, openVars, reported, volt>>

\* UD_AI_AsyncDblBufferTransfer of the last data.
FinalTransfer ==
    /\ pc = "final_transfer"
    /\ \E r \in Answers :
         IF r = "error"
         THEN /\ CleanExit(1, "FinalTransfer")
              /\ UNCHANGED done
         ELSE /\ done' = Append(done, "final_transfer")
              /\ pc' = "final_process"
              /\ UNCHANGED <<file, devVars, failure, exitVia, exitCode>>
    /\ UNCHANGED <<cfgVars, hwTouched, tick, t1, elapsed, halves, samples,
                   offset, AccessCnt, written, psCalls, lastCheck, keyAsked, lastArg, ps, openVars, reported, volt>>

\* printf of samples + AccessCnt;
\* offset = process_samples(buffer, AccessCnt, offset);
ProcessLast ==
    /\ pc = "final_process"
    /\ reported' = samples + AccessCnt
    /\ CallProcessSamples(AccessCnt)
    /\ pc' = IF exitVia' = "trap" THEN "crashed" ELSE "release"
    /\ done' = IF exitVia' = "trap" THEN done ELSE Append(done, "final_process")
    /\ UNCHANGED <<cfgVars, hwTouched, tick, t1, elapsed, halves, samples,
                   AccessCnt, lastCheck, keyAsked, lastArg, ps, openVars, volt>>

\* UD_Release_Card(card); at line 142
Release ==
    /\ pc = "release"
    /\ ReleaseCard
    /\ done' = Append(done, "release")
    /\ pc' = "final"
    /\ UNCHANGED <<cfgVars, file, hwTouched, tick, t1, elapsed, halves, samples,
                   offset, AccessCnt, written, psCalls, failure, exitVia,
                   exitCode, lastCheck, keyAsked, lastArg, ps, openVars, reported, volt>>

\* The last key press in "until a key is pressed" mode, and clean_exit(card, 0).
FinalExit ==
    /\ pc = "final"
    /\ CleanExit(0, "none")
    /\ UNCHANGED <<cfgVars, hwTouched, runVars, lastArg, ps, openVars, reported, volt>>

main ==
    \/ OpenFile
    \/ Poll
    \/ PollFailedClear
    \/ PollFailedExit
    \/ Transfer
    \/ ProcessHalf
    \/ ExitCheck
    \/ Clear
    \/ FinalTransfer
    \/ ProcessLast
    \/ Release
    \/ FinalExit

(***************************************************************************)
(* The whole program.                                                      *)
(***************************************************************************)
Init ==
    /\ pc = "args"
    /\ no_channels = 0
    /\ channel = <<>>
    /\ sample_rate = 200
    /\ duration = 0 - 1
    /\ file_name = "data.csv"
    /\ file = "NULL"
    /\ cardState = "none"
    /\ releases = 0
    /\ misRelease = FALSE
    /\ hwTouched = FALSE
    /\ tick \in TickStarts
    /\ t1 = <<0, 0>>
    /\ elapsed = 0
    /\ halves = 0
    /\ samples = 0
    /\ offset = 0
    /\ AccessCnt = 0
    /\ written = 0
    /\ psCalls = <<>>
    /\ failure = "none"
    /\ exitVia = "none"
    /\ exitCode = 0
    /\ lastCheck = <<>>
    /\ keyAsked = FALSE
    /\ done = <<>>
    /\ lastArg = [opt |-> "none", val |-> NoArg, nth |-> 0]
    /\ ps = [pc |-> "off"]
    /\ Chans = <<>>
    /\ AdRanges = <<>>
    /\ reported = 0 - 1
    /\ volt = [pc |-> "off"]

Next ==
    \/ process_arguments
    \/ open_USB1901
    \/ main

Spec == Init /\ [][Next]_vars

(***************************************************************************)
(* process_samples as a function: a buffer is processed in two calls, the  *)
(* second with the offset the first returned, and in one call.             *)
(***************************************************************************)
\* Raw codes the buffers are filled with.
RawCodes == {0, 32767}

RawCycle == <<16384, 0 - 32768, 0, 32767>>

Buffers(n) ==
    {[i \in 1..n |-> v] : v \in RawCodes}
        \cup {[i \in 1..n |-> RawCycle[(i % 4) + 1]]}
        \cup {[i \in 1..n |-> IF ((i - 1) \div 2) % 2 = 0 THEN 16384 ELSE 0]}

\* Orders in which the channels of a table take the four ranges.
RangeOrders == {<<1, 3, 0, 2>>, <<0, 1, 2, 3>>}

ChannelTable(n, order) ==
    [k \in 1..n |-> <<k - 1, RangeCode(order[((k - 1) % 4) + 1])>>]

InitPS ==
    /\ pc = "process_samples"
    /\ no_channels \in 1..MAX_CHANNELS
    /\ \E order \in RangeOrders : channel = ChannelTable(no_channels, order)
    /\ sample_rate = 200
    /\ duration = 0 - 1
    /\ file_name = "data.csv"
    /\ file = "open"
    /\ cardState = "held"
    /\ releases = 0
    /\ misRelease = FALSE
    /\ hwTouched = TRUE
    /\ tick = <<0, 0>>
    /\ t1 = <<0, 0>>
    /\ elapsed = 0
    /\ halves = 0
    /\ samples = 0
    /\ offset = 0
    /\ AccessCnt = 0
    /\ written = 0
    /\ psCalls = <<>>
    /\ failure = "none"
    /\ exitVia = "none"
    /\ exitCode = 0
    /\ lastCheck = <<>>
    /\ keyAsked = FALSE
    /\ done = <<>>
    /\ lastArg = [opt |-> "none", val |-> NoArg, nth |-> 0]
    /\ Chans = [k \in 1..no_channels |-> channel[k][1]]
    /\ AdRanges = [k \in 1..no_channels |-> channel[k][2]]
    /\ reported = 0 - 1
    /\ volt = [pc |-> "off"]
    /\ \E L1 \in 0..MaxLen, L2 \in 0..MaxLen, O \in 0..(no_channels - 1) :
         \E buf \in Buffers(L1 + L2) :
           ps = [pc |-> "first", L1 |-> L1, L2 |-> L2, O |-> O, buf |-> buf,
                 out |-> <<>>, ref |-> <<>>, ret1 |-> 0, ret2 |-> 0, retS |-> 0,
                 samplesPerChannel |-> 0]

mainVars == <<pc, cfgVars, file, devVars, hwTouched, runVars, failure, exitVia,
              exitCode, lastArg, openVars, reported>>

\* process_samples(buffer, L1, O)
PSFirst ==
    /\ ps.pc = "first"
    /\ ps' = [ps EXCEPT
                !.pc = "second",
                !.out = ProcessSamplesOut(SubSeq(ps.buf, 1, ps.L1), ps.L1, ps.O),
                !.samplesPerChannel = SamplesPerChannel(ps.L1),
                !.ret1 = ProcessSamplesRet(ps.L1, ps.O)]
    /\ UNCHANGED <<mainVars, volt>>

\* process_samples(buffer + L1, L2, <the offset the first call returned>)
PSSecond ==
    /\ ps.pc = "second"
    /\ ps' = [ps EXCEPT
                !.pc = "single",
                !.out = ps.out \o
                        ProcessSamplesOut(SubSeq(ps.buf, ps.L1 + 1, ps.L1 + ps.L2),
                                          ps.L2, ps.ret1),
                !.ret2 = ProcessSamplesRet(ps.L2, ps.ret1)]
    /\ UNCHANGED <<mainVars, volt>>

\* process_samples(buffer, L1 + L2, O), writing to a second file
PSSingle ==
    /\ ps.pc = "single"
    /\ ps' = [ps EXCEPT
                !.pc = "done",
                !.ref = ProcessSamplesOut(ps.buf, ps.L1 + ps.L2, ps.O),
                !.retS = ProcessSamplesRet(ps.L1 + ps.L2, ps.O)]
    /\ UNCHANGED <<mainVars, volt>>

NextPS ==
    \/ PSFirst
    \/ PSSecond
    \/ PSSingle

SpecPS == InitPS /\ [][NextPS]_vars

(***************************************************************************)
(* ad_range_to_volt as a function: calls made while a session is           *)
(* acquiring, on supported range codes and on other U16 values.            *)
(***************************************************************************)
RangeInputs == {"AD_B_0_2_V", "AD_B_1_V", "AD_B_2_V", "AD_B_10_V",
                "AD_B_5_V", "AD_U_10_V", "0xFFFF"}

InitVolt ==
    /\ pc = "process_samples"
    /\ no_channels = 1
    /\ channel = ChannelTable(1, <<1, 3, 0, 2>>)
    /\ sample_rate = 200
    /\ duration = 0 - 1
    /\ file_name = "data.csv"
    /\ file = "open"
    /\ cardState = "held"
    /\ releases = 0
    /\ misRelease = FALSE
    /\ hwTouched = TRUE
    /\ tick = <<0, 0>>
    /\ t1 = <<0, 0>>
    /\ elapsed = 0
    /\ halves = 0
    /\ samples = 0
    /\ offset = 0
    /\ AccessCnt = 0
    /\ written = 0
    /\ psCalls = <<>>
    /\ failure = "none"
    /\ exitVia = "none"
    /\ exitCode = 0
    /\ lastCheck = <<>>
    /\ keyAsked = FALSE
    /\ done = <<>>
    /\ lastArg = [opt |-> "none", val |-> NoArg, nth |-> 0]
    /\ ps = [pc |-> "off"]
    /\ Chans = [k \in 1..no_channels |-> channel[k][1]]
    /\ AdRanges = [k \in 1..no_channels |-> channel[k][2]]
    /\ reported = 0 - 1
    /\ volt = [calls |-> <<>>, stderr |-> <<>>]

\* ad_range_to_volt(range): the value returned and the message written; the
\* function returns to its caller on every branch.
VoltCall ==
    /\ Len(volt.calls) < MaxVoltCalls
    /\ \E range \in RangeInputs :
         volt' = [calls  |-> Append(volt.calls,
                                    [range |-> range,
                                     ret |-> ad_range_to_volt(range)]),
                  stderr |-> volt.stderr \o UnknownRangeMessage(range)]
    /\ UNCHANGED <<mainVars, ps>>

NextVolt == VoltCall

SpecVolt == InitVolt /\ [][NextVolt]_vars

(***************************************************************************)
(* Properties.                                                             *)
(***************************************************************************)
\* r is the remainder of n divided by c.
IsRemainder(r, n, c) == r \in 0..(c - 1) /\ \E q \in 0..n : n = q * c + r

\* C1: for every channel count in 1..8, offset O in [0, C) and length L >= 0,
\* process_samples returns the remainder of L + O divided by the channel
\* count, whatever the buffer holds (checked for each of the three calls).
C1_ReturnedOffset ==
    /\ ps.pc \in {"second", "single", "done"}
         => IsRemainder(ps.ret1, ps.L1 + ps.O, no_channels)
    /\ ps.pc \in {"single", "done"}
         => IsRemainder(ps.ret2, ps.L2 + ps.ret1, no_channels)
    /\ ps.pc = "done"
         => IsRemainder(ps.retS, ps.L1 + ps.L2 + ps.O, no_channels)

\* C1 witness: 8 channels, offset 7, a buffer of three samples of raw code
\* 32767: the call returned 2.
C1_Witness ==
    /\ ps.pc = "done"
    /\ no_channels = 8
    /\ ps.O = 7
    /\ ps.L1 = 3
    /\ ps.buf[1] = 32767
    /\ ps.ret1 = 2

\* The separators of a sequence of written fields.
Seps(f) == [i \in 1..Len(f) |-> f[i].sep]

\* C2: two calls on consecutive buffers of lengths L1 and L2, the second
\* with the offset the first returned, write the same sequence of field
\* separators as one call on the concatenated buffer, and return the same
\* final offset.
C2_SplitIndependent ==
    ps.pc = "done" => /\ Seps(ps.out) = Seps(ps.ref)
                      /\ ps.ret2 = ps.retS

\* C2 witness: 3 channels, offset 1, buffers of 4 and 5 samples: the first
\* call ends inside a row, which the second call completes.
C2_Witness ==
    /\ ps.pc = "done"
    /\ no_channels = 3
    /\ ps.O = 1
    /\ ps.L1 = 4
    /\ ps.L2 = 5
    /\ ps.ret1 = 2
    /\ Seps(ps.out) = <<",\t", "\n", ",\t", ",\t", "\n", ",\t", ",\t", "\n", ",\t">>

RuntimeFailures == {"HalfReady", "Transfer", "Clear", "FinalTransfer"}

\* C3: a failure of the half-ready query, of a half-buffer transfer, of the
\* clear operation or of the final transfer ends the process through
\* clean_exit with a non-zero status, the device handle released and the
\* output file not left open.
C3_RuntimeErrorsCleanExit ==
    failure \in RuntimeFailures =>
        /\ pc = "exited"
        /\ exitVia = "clean_exit"
        /\ exitCode # 0
        /\ cardState = "released"
        /\ releases = 1
        /\ file # "open"

\* C3 witness: a half-buffer transfer failed with the output file open; the
\* file is closed and the handle released.
C3_Witness ==
    /\ failure = "Transfer"
    /\ no_channels = 1
    /\ done = <<"error_clear">>
    /\ exitVia = "clean_exit"
    /\ file = "closed"
    /\ cardState = "released"

ConfigFailures == {"AI_1902_Config", "AsyncDblBufferMode", "CounterInterval",
                   "ContReadChannel", "ContReadMultiChannels"}

\* C4: a driver error in open_USB1901 after the card was registered (the
\* analog-input configuration, double-buffer mode, counter interval or
\* continuous-read start) goes through the exit procedure, so the registered
\* handle is released before the process ends.
C4_ConfigErrorsRelease ==
    failure \in ConfigFailures => /\ exitVia = "clean_exit"
                                  /\ cardState = "released"

\* C5: on every path the release operation is applied to the device handle
\* at most once, and never to a handle that is not held (stated for the
\* sessions that sample at least one channel).
C5_ReleaseOnceWhenHeld == no_channels > 0 => (releases <= 1 /\ ~ misRelease)

\* C6: no call of process_samples, for a ready half-buffer or for the final
\* drain, is reached with no_channels = 0.
C6_NoZeroChannelCall == psCalls # <<>> => no_channels > 0

ArgFailures == {"arg_o", "arg_s", "arg_c", "arg_c_many", "arg_d", "arg_unknown"}

\* The option examined last is one of: a -c whose id is outside [0,15] or
\* whose range is outside [0,3], a ninth -c, a -s or -d with a value below 1
\* or with no value, a -o with no value, an unrecognized option.
Malformed(a) ==
    \/ a.opt = "-c" /\ a.nth > MAX_CHANNELS
    \/ a.opt = "-c" /\ a.val.k = "pair"
                    /\ (a.val.id \notin 0..15 \/ a.val.range \notin 0..3)
    \/ a.opt \in {"-s", "-d"} /\ a.val = NoArg
    \/ a.opt \in {"-s", "-d"} /\ a.val.k = "int" /\ a.val.v < 1
    \/ a.opt = "-o" /\ a.val = NoArg
    \/ a.opt = "other"

\* C7: when process_arguments meets a malformed option the process exits
\* there with a non-zero status, no driver call made and the output file
\* never opened.
C7_ArgErrorsFailFast ==
    Malformed(lastArg) =>
        /\ pc = "exited"
        /\ exitVia = "exit"
        /\ failure \in ArgFailures
        /\ exitCode # 0
        /\ ~ hwTouched
        /\ cardState = "none"
        /\ file = "NULL"

\* C7 witness: a ninth -c option, after eight were accepted, ended the
\* process with status -1.
C7_Witness ==
    /\ pc = "exited"
    /\ lastArg.opt = "-c"
    /\ lastArg.nth = 9
    /\ no_channels = 8
    /\ exitCode = 0 - 1

\* ms > 1000 * d, computed without the product.
ExceedsDuration(ms, d) == ms >= 1 /\ (ms - 1) \div 1000 >= d

\* C8: in fixed-duration mode every exit check breaks exactly when the
\* milliseconds elapsed since the loop started exceed 1000 * duration, and
\* the key press is never consulted.
C8_BreaksWhenExceeded ==
    duration >= 1 =>
        /\ ~ keyAsked
        /\ lastCheck # <<>> =>
             (lastCheck[2] <=> ExceedsDuration(lastCheck[1], duration))

\* The phases of a session.
Phase(p) ==
    CASE p \in {"args", "scan", "register", "config", "dblmode", "interval",
                "contread", "fopen"}                        -> 1
      [] p \in {"poll", "poll_failed", "poll_cleared", "transfer", "process",
                "exitcheck"}                                -> 2
      [] p \in {"clear", "final_transfer", "final_process"} -> 3
      [] p \in {"release", "final"}                         -> 4
      [] OTHER                                              -> 5

\* The end of a session that exits with code 0 (the usage exit of -h aside).
C9_AtExitZero ==
    (pc = "exited" /\ exitCode = 0 /\ failure # "usage") =>
        /\ done = <<"break", "clear", "final_transfer", "final_process",
                    "release">>
        /\ cardState = "released"
        /\ Len(psCalls) = halves + 1
        /\ psCalls[Len(psCalls)].length = AccessCnt
        /\ psCalls[Len(psCalls)].offset =
             (IF Len(psCalls) = 1 THEN 0 ELSE psCalls[Len(psCalls) - 1].ret)

\* C9: a session goes through CONFIGURING, ACQUIRING, DRAINING and STOPPED
\* in this order and never back (no poll or transfer of the loop after the
\* clear of DRAINING); it exits with code 0 only after the loop was left
\* through its exit check, the clear succeeded, one final transfer
\* succeeded, the trailing AccessCnt samples were given to process_samples
\* with the offset carried over from the loop, and the handle was released.
C9_PhaseOrder ==
    /\ []C9_AtExitZero
    /\ [][Phase(pc') >= Phase(pc)]_vars

\* C9 witness: a session on 3 channels that processed two half-buffers and
\* two trailing samples (the last call with offset 2) exited with code 0.
C9_Witness ==
    /\ pc = "exited"
    /\ exitCode = 0
    /\ no_channels = 3
    /\ halves = 2
    /\ AccessCnt = 2
    /\ psCalls[3] = [length |-> 2, offset |-> 2, ret |-> 1]
    /\ written = 2 * HalfCount + 2
    /\ file = "closed"
    /\ cardState = "released"

\* C10: a session whose output file could not be opened, in which no
\* half-buffer became ready and the clear operation reported 0 trailing
\* samples, ends with exit code 0.
C10_NoWriteRunExitsZero ==
    (/\ pc \in {"exited", "crashed"}
     /\ file = "NULL"
     /\ Len(done) >= 3
     /\ done[3] = "final_transfer"
     /\ halves = 0
     /\ AccessCnt = 0)
        => (pc = "exited" /\ exitCode = 0)

\* The failure classes of the exit codes.
FailureClass(f) ==
    CASE f = "Device_Scan"     -> "scan"
      [] f = "no_device"       -> "no_device"
      [] f = "Register_Card"   -> "registration"
      [] f \in ConfigFailures  -> "configuration"
      [] f \in RuntimeFailures -> "runtime"
      [] OTHER                 -> "other"

FailureClasses == {"scan", "no_device", "registration", "configuration",
                   "runtime"}

\* The codes the source gives to exit and clean_exit for each failure class.
CodesOf(class) ==
    CASE class = "scan"          -> {1}
      [] class = "no_device"     -> {2}
      [] class = "registration"  -> {3}
      [] class = "configuration" -> {1}
      [] class = "runtime"       -> {1}

\* C11: the exit code is 0 only on normal completion (the usage exit of -h
\* counted as one), and a process ended by a failure of one of the five
\* classes (device scan, no matching device, registration, configuration,
\* runtime acquisition) exits with a small positive code that no other of
\* the five classes uses.
C11_DistinctExitCodes ==
    pc = "exited" =>
        /\ exitCode = 0 => failure \in {"none", "usage"}
        /\ FailureClass(failure) \in FailureClasses =>
             /\ exitCode \in 1..255
             /\ exitCode \in CodesOf(FailureClass(failure))
             /\ \A other \in FailureClasses \ {FailureClass(failure)} :
                  exitCode \notin CodesOf(other)

\* C12: when the half-ready query fails, the clear operation is attempted
\* first, with the handle still held, and only then the exit procedure runs,
\* with a non-zero code; after the failed query the program makes no further
\* status query, half-buffer transfer or process_samples call, and nothing
\* follows the exit.
C12_HalfReadyFailure ==
    /\ [](pc = "poll_cleared" =>
            /\ done # <<>>
            /\ done[Len(done)] = "error_clear"
            /\ cardState = "held"
            /\ exitVia = "none")
    /\ [](failure = "HalfReady" =>
            /\ pc = "exited"
            /\ exitVia = "clean_exit"
            /\ exitCode # 0
            /\ done # <<>>
            /\ done[Len(done)] = "error_clear")
    /\ [][pc = "poll_failed" => pc' = "poll_cleared"]_vars
    /\ [][pc = "poll_cleared" => (pc' = "exited" /\ failure' = "HalfReady")]_vars
    /\ [][(pc = "poll_failed" \/ pc = "poll_cleared") =>
            (tick' = tick /\ halves' = halves /\ psCalls' = psCalls)]_vars
    /\ [][failure # "HalfReady"]_vars

\* C12 witness: after one half-buffer was processed the second query failed;
\* the clear was attempted and the process left through clean_exit(card, 1).
C12_Witness ==
    /\ failure = "HalfReady"
    /\ no_channels = 2
    /\ halves = 1
    /\ Len(psCalls) = 1
    /\ done = <<"error_clear">>
    /\ exitVia = "clean_exit"
    /\ exitCode = 1
    /\ cardState = "released"

\* The number of samples given to the calls before the j-th.
RECURSIVE SamplesBefore(_, _)
SamplesBefore(calls, j) ==
    IF j <= 1 THEN 0 ELSE SamplesBefore(calls, j - 1) + calls[j - 1].length

\* The first and the last MAX_CHANNELS sample indices of a call.
EdgeSamples(length) ==
    (0..((IF length < MAX_CHANNELS THEN length ELSE MAX_CHANNELS) - 1))
        \cup ((IF length < MAX_CHANNELS THEN 0 ELSE length - MAX_CHANNELS)
                  ..(length - 1))

\* C13: in a session with C > 0 channels that has not been killed, after
\* every processed half-buffer and after the final drain the offset main
\* holds lies in [0, C) and is the number of samples processed so far modulo
\* C; each call was given the number of samples processed before it, modulo
\* C, so that the k-th sample of the session (from 0) is written as the field
\* of channel k mod C and is followed by a newline exactly when it is the
\* C-th field of its row (looked at for the first and the last MAX_CHANNELS
\* samples of each call).
C13_RotationOffset ==
    (no_channels > 0 /\ pc # "crashed") =>
        /\ offset \in 0..(no_channels - 1)
        /\ offset = SamplesBefore(psCalls, Len(psCalls) + 1) % no_channels
        /\ \A j \in 1..Len(psCalls) :
             /\ psCalls[j].offset = SamplesBefore(psCalls, j) % no_channels
             /\ \A i \in EdgeSamples(psCalls[j].length) :
                  LET k == SamplesBefore(psCalls, j) + i
                      f == Field([n \in 1..psCalls[j].length |-> 0], i,
                                 psCalls[j].offset)
                  IN  /\ f.c = k % no_channels
                      /\ f.sep = "\n" <=> k % no_channels = no_channels - 1

\* C13 witness: a session on 7 channels processed one half-buffer and three
\* trailing samples; the drain was called with offset 6 and left offset 2.
C13_Witness ==
    /\ pc = "exited"
    /\ exitCode = 0
    /\ no_channels = 7
    /\ halves = 1
    /\ AccessCnt = 3
    /\ psCalls[2] = [length |-> 3, offset |-> 6, ret |-> 2]
    /\ offset = 2
    /\ written = HalfCount + 3
    /\ file = "closed"

\* The full scale of each supported range, in tenths of a volt.
FullScale ==
    [r \in {"AD_B_0_2_V", "AD_B_1_V", "AD_B_2_V", "AD_B_10_V"} |->
       CASE r = "AD_B_0_2_V" -> 2
         [] r = "AD_B_1_V"   -> 10
         [] r = "AD_B_2_V"   -> 20
         [] r = "AD_B_10_V"  -> 100]

\* The range of the channel of the k-th sample (k from 1) of the experiment.
RangeOfSample(k) == channel[((k - 1 + ps.O) % no_channels) + 1][2]

\* Field k of a written sequence holds raw_code * fullscale / 32768 volts
\* (volts are kept in units of 1 / (10 * 32768) V).
LinearField(f, k) ==
    /\ f.volts = ps.buf[k] * FullScale[RangeOfSample(k)]
    /\ ps.buf[k] = 0 => f.volts = 0
    /\ (ps.buf[k] = 32767 /\ RangeOfSample(k) = "AD_B_10_V")
         => f.volts = 100 * 32767

\* C14: every sample i of a processed buffer is written as raw_code *
\* fullscale(range of channel (i + offset) mod C) / 32768 volts, in one call
\* and in two; raw code 0 gives 0 V on every range and +32767 on the 10 V
\* range gives 10 * 32767 / 32768 V; for the channels (0, 1 V), (1, 10 V) the
\* buffer [16384, 16384, 0, 0] with offset 0 gives the rows (0.5 V, 5.0 V) and
\* (0 V, 0 V) and the returned offset 0.
C14_LinearConversion ==
    ps.pc = "done" =>
        /\ \A k \in 1..Len(ps.ref) : LinearField(ps.ref[k], k)
        /\ \A k \in 1..Len(ps.out) : LinearField(ps.out[k], k)
        /\ (/\ channel = <<<<0, "AD_B_1_V">>, <<1, "AD_B_10_V">>>>
            /\ ps.O = 0
            /\ ps.buf = <<16384, 16384, 0, 0>>)
             => /\ ps.ref = <<[c |-> 0, volts |-> 5 * 32768, sep |-> ",\t"],
                              [c |-> 1, volts |-> 50 * 32768, sep |-> "\n"],
                              [c |-> 0, volts |-> 0, sep |-> ",\t"],
                              [c |-> 1, volts |-> 0, sep |-> "\n"]>>
                /\ ps.retS = 0

\* C14 witness: the example of the claim, processed in one call of four
\* samples; the second field written is 5.0 V.
C14_Witness ==
    /\ ps.pc = "done"
    /\ channel = <<<<0, "AD_B_1_V">>, <<1, "AD_B_10_V">>>>
    /\ ps.O = 0
    /\ ps.L1 = 4
    /\ ps.L2 = 0
    /\ ps.buf = <<16384, 16384, 0, 0>>
    /\ ps.out[2].volts = 50 * 32768
    /\ ps.ret1 = 0

\* C15: ad_range_to_volt returns 0.2 V, 1.0 V, 2.0 V and 10.0 V for the four
\* supported range codes and writes nothing for them; for every other input
\* it returns 0.0 V and writes one message to the error stream; the process
\* is not ended by a call, whatever the input, so further calls follow.
C15_VoltTotal ==
    /\ pc = "process_samples"
    /\ exitVia = "none"
    /\ \A j \in 1..Len(volt.calls) :
         LET call == volt.calls[j]
         IN  /\ call.range = "AD_B_0_2_V" => call.ret = 2
             /\ call.range = "AD_B_1_V"   => call.ret = 10
             /\ call.range = "AD_B_2_V"   => call.ret = 20
             /\ call.range = "AD_B_10_V"  => call.ret = 100
             /\ call.range \notin DOMAIN FullScale => call.ret = 0
    /\ Len(volt.stderr) =
         Cardinality({j \in 1..Len(volt.calls) :
                        volt.calls[j].range \notin DOMAIN FullScale})

\* C15 witness: a call with the 10 V code, a call with an unsupported code
\* (0.0 V returned, one message written) and a call with the 1 V code after it.
C15_Witness ==
    /\ Len(volt.calls) = 3
    /\ volt.calls[1] = [range |-> "AD_B_10_V", ret |-> 100]
    /\ volt.calls[2] = [range |-> "AD_B_5_V", ret |-> 0]
    /\ volt.calls[3] = [range |-> "AD_B_1_V", ret |-> 10]
    /\ volt.stderr = <<"ad_range_to_volt: Unknown AD range.">>
    /\ exitVia = "none"

\* Every half-buffer transferred so far has been given to process_samples,
\* with length 10240, and main's samples is 10240 times their number.
HalvesProcessed ==
    /\ Len(psCalls) = halves
    /\ \A j \in 1..Len(psCalls) : psCalls[j].length = 10240
    /\ samples = 10240 * halves

\* C16: a half-buffer the driver reported ready is transferred next and
\* then given to process_samples with length AI_COUNT/2 = 10240, and only
\* after that is an exit check evaluated, so the loop never ends with a
\* transferred half-buffer unprocessed; at every query, exit check and step
\* of the drain the running total is 10240 times the number of half-buffers
\* processed; the total printed at the end is that value plus the trailing
\* count the clear operation returned.
C16_ReadyHalfProcessed ==
    /\ [](pc \in {"poll", "transfer", "exitcheck", "clear", "final_transfer",
                  "final_process"} => HalvesProcessed)
    /\ [][pc = "transfer" =>
            (pc' = "process" /\ halves' = halves + 1) \/ pc' = "exited"]_vars
    /\ [][pc = "process" =>
            /\ Len(psCalls') = halves
            /\ psCalls'[halves].length = 10240
            /\ pc' = "exitcheck" \/ pc' = "crashed"]_vars
    /\ [][(lastCheck' # lastCheck \/ keyAsked' # keyAsked \/ pc' = "clear")
            => (pc = "exitcheck" /\ HalvesProcessed)]_vars
    /\ [](reported # 0 - 1 =>
            /\ reported = 10240 * halves + AccessCnt
            /\ Len(psCalls) = halves + 1
            /\ \A j \in 1..halves : psCalls[j].length = 10240)

\* C16 witness: two half-buffers were reported ready and processed, the clear
\* returned 3 trailing samples, and the total printed was 20483.
C16_Witness ==
    /\ pc = "exited"
    /\ exitCode = 0
    /\ no_channels = 1
    /\ halves = 2
    /\ samples = 20480
    /\ AccessCnt = 3
    /\ reported = 20483
    /\ Len(psCalls) = 3
    /\ psCalls[2].length = 10240

\* The number of fields of channel c in a written sequence: the number of
\* samples added to sum[c].
Accumulated(f, c) == Cardinality({k \in 1..Len(f) : f[k].c = c})

\* C17: after a call of process_samples with C > 0 channels, length L and
\* offset O, the divisor of the averages, the integer quotient L / C, is for
\* each channel the number of samples of that channel the call accumulated,
\* and it is not zero if the call processed a sample (stated for the first
\* call of the experiment).
C17_DivisorIsCount ==
    ps.pc = "second" =>
        /\ \A c \in 0..(no_channels - 1) :
             ps.samplesPerChannel = Accumulated(ps.out, c)
        /\ ps.L1 > 0 => ps.samplesPerChannel # 0

\* The full scale, in tenths of a volt, the usage text gives for each range
\* digit of -c.
DigitFullScale == <<2, 10, 20, 100>>

\* process_arguments has returned.
ArgsReturned == pc # "args" /\ failure \notin (ArgFailures \cup {"usage"})

\* The channel table after process_arguments returned.
C18_TableValid ==
    ArgsReturned =>
        /\ no_channels \in 0..8
        /\ Len(channel) = no_channels
        /\ \A k \in 1..no_channels :
             /\ channel[k][1] \in 0..15
             /\ channel[k][2] \in {"AD_B_0_2_V", "AD_B_1_V", "AD_B_2_V",
                                   "AD_B_10_V"}
             /\ UnknownRangeMessage(channel[k][2]) = <<>>
        /\ hwTouched =>
             /\ Len(Chans) = no_channels
             /\ Len(AdRanges) = no_channels
             /\ \A k \in 1..no_channels :
                  Chans[k] = channel[k][1] /\ AdRanges[k] = channel[k][2]
        /\ \A j \in 1..Len(psCalls) : \A i \in EdgeSamples(psCalls[j].length) :
             no_channels > 0 =>
               Field([n \in 1..psCalls[j].length |-> 1], i,
                     psCalls[j].offset).volts
                 = ad_range_to_volt(AdRanges[CMod(i + psCalls[j].offset,
                                                  no_channels) + 1])

\* C18: after process_arguments returns the channel table holds 0 to 8
\* entries, in the order the -c options were given (each accepted -c appends
\* its id and the code of its range digit as the last entry), every entry
\* with an id in [0,15] and one of the four supported range codes, so that
\* ad_range_to_volt writes no unknown-range message for any entry; the table
\* is not modified after process_arguments; the arrays the device is
\* configured with hold the same ids and ranges in the same order as the
\* table process_samples de-interleaves with.
C18_ChannelTable ==
    /\ []C18_TableValid
    /\ [][channel' # channel =>
            /\ pc = "args"
            /\ lastArg'.opt = "-c"
            /\ lastArg'.val.k = "pair"
            /\ no_channels' = no_channels + 1
            /\ Len(channel') = no_channels'
            /\ SubSeq(channel', 1, no_channels) = channel
            /\ channel'[no_channels'][1] = lastArg'.val.id
            /\ ad_range_to_volt(channel'[no_channels'][2])
                 = DigitFullScale[lastArg'.val.range + 1]]_vars
    /\ [][pc # "args" => (channel' = channel /\ no_channels' = no_channels)]_vars

\* C18 witness: the command line gave -c 1:3 and then -c 0:1; the session ran
\* to the end with the table, and the device arrays, in that order.
C18_Witness ==
    /\ pc = "exited"
    /\ exitCode = 0
    /\ channel = <<<<1, "AD_B_10_V">>, <<0, "AD_B_1_V">>>>
    /\ Chans = <<1, 0>>
    /\ AdRanges = <<"AD_B_10_V", "AD_B_1_V">>
    /\ Len(psCalls) = 2
    /\ halves = 1

=============================================================================
